---- MODULE Spec2Model ----
(***************************************************************************)
(* Model of seqTools/alignAnnotate.py: the reference index built by main,  *)
(* the per-query matcher alignAnnotateEachSeq with its two approximate     *)
(* matchers, the annotation formatter makeAnnotation, and the batch driver *)
(* (sequential Series.apply, or joblib workers) that collects the          *)
(* annotations and writes them out.                                        *)
(*                                                                         *)
(* Python strings are sequences of one-character strings, so that joining  *)
(* and splitting are computed character by character.                      *)
(***************************************************************************)
EXTENDS Integers, Sequences, FiniteSets, TLC

VARIABLES
    args,           \* parsed command line: indel, MMcutoff, numberedMode, startPos, numCore
    pc,             \* position of main
    numRecords,     \* number of records SeqIO.parse has yielded so far
    refSeqsDict,    \* reference ID -> upper-cased sequence
    refPosDict,     \* reference ID -> list of position labels
    hashOrder,      \* iteration order of each dict met so far, by key set
    allQuerySeqs,   \* column 'seq' of the query table
    nextTask,       \* next row to hand to apply / to a worker
    running,        \* worker -> row it is matching (0: idle)
    results,        \* row -> outcome of alignAnnotateEachSeq on it
    completed,      \* rows in the order their calls finished
    allAnnotations, \* the collected pandas Series
    output,         \* column 'annotation' of the written file
    exception       \* the exception that ended main, if any

vars == <<args, pc, numRecords, refSeqsDict, refPosDict, hashOrder, allQuerySeqs,
          nextTask, running, results, completed, allAnnotations, output, exception>>

-----------------------------------------------------------------------------
(* Bounds of the model *)

MaxSeqLen == 2
MaxRecords == 2
MaxQueries == 2
MaxCores == 2
MaxCutoff == 1

(* Bases as they may appear in the files (lower case is allowed there) *)
RawBases == {"A", "c"}

RawSeqs == UNION {[1..n -> RawBases] : n \in 1..MaxSeqLen}

(* Record IDs of the reference file: any non-blank word, ':' included *)
RefIDs == {<<"x">>, <<"x", ":", "y">>}

(* Quality strings of a numbered (FASTQ) reference: labels 10, 11, .. *)
PhredStarts == {24}

PhredLists(n) == {[i \in 1..n |-> s + i] : s \in PhredStarts}

(* Values of the 'count' column *)
CountVals == {12}

-----------------------------------------------------------------------------
(* Python values *)

PyInt(n) == [type |-> "int", val |-> n]

None == [type |-> "NoneType", val |-> 0]

nan == [type |-> "float", val |-> 0]

Truthy(v) == v.type = "int" /\ v.val # 0

Digit(d) ==
    CASE d = 0 -> "0" [] d = 1 -> "1" [] d = 2 -> "2" [] d = 3 -> "3" [] d = 4 -> "4"
      [] d = 5 -> "5" [] d = 6 -> "6" [] d = 7 -> "7" [] d = 8 -> "8" [] d = 9 -> "9"

RECURSIVE NatStr(_)
NatStr(n) == IF n < 10 THEN <<Digit(n)>> ELSE NatStr(n \div 10) \o <<Digit(n % 10)>>

IntStr(n) == IF n < 0 THEN <<"-">> \o NatStr(-n) ELSE NatStr(n)

(* Mutant of str: the not-available count is written as a zero *)
str_nanAsZero(v) == IF v.type = "float" THEN <<"0">> ELSE IntStr(v.val)

str(v) == IF v.type = "float" THEN <<"n", "a", "n">> ELSE IntStr(v.val)

UpperChar(c) ==
    CASE c = "a" -> "A" [] c = "c" -> "C" [] c = "g" -> "G" [] c = "t" -> "T"
      [] OTHER -> c

upper(s) == [i \in 1..Len(s) |-> UpperChar(s[i])]

RECURSIVE join(_, _)
join(sep, list) ==
    IF list = <<>> THEN <<>>
    ELSE IF Len(list) = 1 THEN list[1]
    ELSE list[1] \o sep \o join(sep, Tail(list))

Range(f) == {f[x] : x \in DOMAIN f}

Min(S) == CHOOSE m \in S : \A n \in S : m <= n

RECURSIVE MapSeq(_, _)
MapSeq(Op(_), s) == IF s = <<>> THEN <<>> ELSE <<Op(Head(s))>> \o MapSeq(Op, Tail(s))

(* dict.items(): the keys of d in the iteration order the dict has *)
Perms(S) == {p \in [1..Cardinality(S) -> S] : \A a, b \in 1..Cardinality(S) : a # b => p[a] # p[b]}

items(d, ord) == IF DOMAIN d = {} THEN <<>> ELSE ord[DOMAIN d]

Put(d, k, v) == [x \in DOMAIN d \cup {k} |-> IF x = k THEN v ELSE d[x]]

-----------------------------------------------------------------------------
(* seqlib: the repository's sequence library, used by alignAnnotate.py *)

(* seqlib.hamming: number of positions at which two equal-length strings differ *)
hamming(a, b) == Cardinality({i \in 1..Len(a) : a[i] # b[i]})

(* Position Relabeler: the label of the reference base at 0-based offset idx;  *)
(* past the end of a label list the last label is continued                   *)
positionLabel(idx, startPos, refPos) ==
    IF refPos = <<>> THEN startPos + idx
    ELSE IF idx + 1 <= Len(refPos) THEN refPos[idx + 1]
    ELSE refPos[Len(refPos)]

Columns(n) == [c \in 1..n |-> c]

(* seqlib.findMismatches: one entry (position, observed, reference) per differing position *)
findMismatches(querySeq, refSeq, startPos, refPos) ==
    LET Differs(c) == querySeq[c] # refSeq[c]
        Entry(c) == IntStr(positionLabel(c - 1, startPos, refPos)) \o <<querySeq[c], refSeq[c]>>
    IN MapSeq(Entry, SelectSeq(Columns(Len(querySeq)), Differs))

Gap == "-"

Gaps(n) == [i \in 1..n |-> Gap]

(* seqlib.alignEmbossNeedle: a global alignment of the two strings, returned as *)
(* two equal-length gapped strings (match +1, mismatch -1, gap -1; on equal     *)
(* score the aligned pair is preferred, then a gap in the reference)           *)
RECURSIVE needle(_, _)
needle(a, b) ==
    IF a = <<>> THEN [score |-> -Len(b), q |-> Gaps(Len(b)), r |-> b]
    ELSE IF b = <<>> THEN [score |-> -Len(a), q |-> a, r |-> Gaps(Len(a))]
    ELSE LET d == needle(Tail(a), Tail(b))
             i == needle(Tail(a), b)
             e == needle(a, Tail(b))
             pair == [score |-> d.score + (IF Head(a) = Head(b) THEN 1 ELSE -1),
                      q |-> <<Head(a)>> \o d.q, r |-> <<Head(b)>> \o d.r]
             ins == [score |-> i.score - 1, q |-> <<Head(a)>> \o i.q, r |-> <<Gap>> \o i.r]
             del == [score |-> e.score - 1, q |-> <<Gap>> \o e.q, r |-> <<Head(b)>> \o e.r]
         IN IF pair.score >= ins.score /\ pair.score >= del.score THEN pair
            ELSE IF ins.score >= del.score THEN ins
            ELSE del

alignEmbossNeedle(querySeq, refSeq) == LET a == needle(querySeq, refSeq) IN <<a.q, a.r>>

(* seqlib.findMismatchesAndIndels: mismatches, insertions (gap on the reference *)
(* side) and deletions (gap on the query side) of a gapped pair                *)
findMismatchesAndIndels(alignedQuery, alignedRef, startPos, refPos) ==
    LET RefIdx(c) == Cardinality({k \in 1..(c - 1) : alignedRef[k] # Gap})
        Pos(c) == IntStr(positionLabel(RefIdx(c), startPos, refPos))
        IsMM(c) == alignedQuery[c] # Gap /\ alignedRef[c] # Gap /\ alignedQuery[c] # alignedRef[c]
        IsIn(c) == alignedRef[c] = Gap
        IsDel(c) == alignedQuery[c] = Gap
        MMEntry(c) == Pos(c) \o <<alignedQuery[c], alignedRef[c]>>
        InEntry(c) == Pos(c) \o <<"+", alignedQuery[c]>>
        DelEntry(c) == Pos(c) \o <<Gap, alignedRef[c]>>
        cols == Columns(Len(alignedQuery))
    IN <<MapSeq(MMEntry, SelectSeq(cols, IsMM)),
         MapSeq(InEntry, SelectSeq(cols, IsIn)),
         MapSeq(DelEntry, SelectSeq(cols, IsDel))>>

-----------------------------------------------------------------------------
(* alignAnnotate.py *)

NA == <<"N", "A">>

Colon == <<":">>

Comma == <<",">>

(* makeAnnotation: the seven fields joined with ':' *)
makeAnnotation(label, numMM, numIn, numDel, listMM, listIn, listDel) ==
    LET csMM == join(Comma, listMM)
        csIn == join(Comma, listIn)
        csDel == join(Comma, listDel)
        listAnnotation == <<label, str(numMM), str(numIn), str(numDel), csMM, csIn, csDel>>
    IN join(Colon, listAnnotation)

(* The arguments of a call of makeAnnotation *)
Fields(label, numMM, numIn, numDel, listMM, listIn, listDel) ==
    [label |-> label, numMM |-> numMM, numIn |-> numIn, numDel |-> numDel,
     listMM |-> listMM, listIn |-> listIn, listDel |-> listDel]

NoFields == Fields(<<>>, nan, nan, nan, <<>>, <<>>, <<>>)

(* What a call of the matcher does: "return makeAnnotation(...)" with the given *)
(* arguments, or an exception raised; whether it printed the tie warning; and  *)
(* which of the approximate matchers and the aligner it called.                *)
Return(f, warned, callees) ==
    [ret |-> makeAnnotation(f.label, f.numMM, f.numIn, f.numDel, f.listMM, f.listIn, f.listDel),
     exc |-> "none", fields |-> f, warning |-> warned, called |-> callees]

Raise(e, callees) ==
    [ret |-> <<>>, exc |-> e, fields |-> NoFields, warning |-> FALSE, called |-> callees]

Pending == [ret |-> <<>>, exc |-> "pending", fields |-> NoFields, warning |-> FALSE, called |-> {}]

(* Mutant of SameLengthRefs: "<=" written for "==" *)
SameLengthRefs_atLeast(querySeq, refSeqs) ==
    {refSeqID \in DOMAIN refSeqs : Len(querySeq) <= Len(refSeqs[refSeqID])}

(* line 35: the references that have the same length as the query *)
SameLengthRefs(querySeq, refSeqs) ==
    {refSeqID \in DOMAIN refSeqs : Len(querySeq) = Len(refSeqs[refSeqID])}

(* lines 41-42, 73-74: the IDs at the smallest distance, in hamDict's iteration order *)
minHamIDs(hamDict, ord) ==
    LET minHam == Min(Range(hamDict))
        IsMin(refSeqID) == hamDict[refSeqID] = minHam
    IN SelectSeq(items(hamDict, ord), IsMin)

(* line 44 *)
withinCutoff(minHam, MMcutoff) == minHam <= MMcutoff

(* Mutant of firstOf: the last of the tied references is reported *)
firstOf_last(minHamRefIDs) == minHamRefIDs[Len(minHamRefIDs)]

(* lines 50, 81: the reported reference *)
firstOf(minHamRefIDs) == minHamRefIDs[1]

alignAnnotateEachSeqMMonly(querySeq, refSeqs, startPos, refPos, MMcutoff, ord) ==
    LET cand == SameLengthRefs(querySeq, refSeqs)
        hamDict == [refSeqID \in cand |-> hamming(querySeq, refSeqs[refSeqID])]
    IN IF cand # {}
       THEN LET minHam == Min(Range(hamDict))
                minHamRefIDs == minHamIDs(hamDict, ord)
            IN IF withinCutoff(minHam, MMcutoff)
               THEN LET matchID == firstOf(minHamRefIDs)
                        listMM == findMismatches(querySeq, refSeqs[matchID], startPos, refPos[matchID])
                    IN Return(Fields(matchID, PyInt(minHam), PyInt(0), PyInt(0), listMM, <<>>, <<>>),
                              Len(minHamRefIDs) > 1, {"MMonly"})
               ELSE Return(Fields(NA, nan, nan, nan, <<>>, <<>>, <<>>), FALSE, {"MMonly"})
       ELSE Return(Fields(NA, nan, nan, nan, <<>>, <<>>, <<>>), FALSE, {"MMonly"})

(* needleOK: whether the external aligner answers (it is a separate program that *)
(* may fail); min() of an empty list raises ValueError                          *)
alignAnnotateEachSeqMMindels(querySeq, refSeqs, startPos, refPos, ord, needleOK) ==
    IF DOMAIN refSeqs # {} /\ ~needleOK THEN Raise("AlignerFailure", {"MMindels", "needle"})
    ELSE IF DOMAIN refSeqs = {} THEN Raise("ValueError", {"MMindels"})
    ELSE LET alignmentsDict == [refSeqID \in DOMAIN refSeqs |-> alignEmbossNeedle(querySeq, refSeqs[refSeqID])]
             hamDict == [refSeqID \in DOMAIN alignmentsDict |->
                            hamming(alignmentsDict[refSeqID][1], alignmentsDict[refSeqID][2])]
             minHamAlignmentIDs == minHamIDs(hamDict, ord)
             matchID == firstOf(minHamAlignmentIDs)
             lists == findMismatchesAndIndels(alignmentsDict[matchID][1], alignmentsDict[matchID][2],
                                              startPos, refPos[matchID])
         IN Return(Fields(matchID, PyInt(Len(lists[1])), PyInt(Len(lists[2])), PyInt(Len(lists[3])),
                           lists[1], lists[2], lists[3]),
                   Len(minHamAlignmentIDs) > 1, {"MMindels", "needle"})

(* Mutant of perfectMatches: the query compared with the ID, not the sequence *)
perfectMatches_byID(querySeq, refSeqs, ord) ==
    LET Same(refSeqID) == querySeq = refSeqID
    IN SelectSeq(items(refSeqs, ord), Same)

(* lines 91-92: the references byte-identical to the query, in iteration order *)
perfectMatches(querySeq, refSeqs, ord) ==
    LET Same(refSeqID) == querySeq = refSeqs[refSeqID]
    IN SelectSeq(items(refSeqs, ord), Same)

(* Mutant of defaultCutoff: the default is one short of the query length *)
defaultCutoff_short(MMcutoff, querySeq) ==
    IF ~Truthy(MMcutoff) THEN Len(querySeq) - 1 ELSE MMcutoff.val

(* lines 97-98: "if not MMcutoff: MMcutoff = len(querySeq)" *)
defaultCutoff(MMcutoff, querySeq) ==
    IF ~Truthy(MMcutoff) THEN Len(querySeq) ELSE MMcutoff.val

alignAnnotateEachSeq(querySeq, refSeqs, startPos, refPos, MMcutoff, indelMode, ord, needleOK) ==
    LET perfect == perfectMatches(querySeq, refSeqs, ord)
    IN IF perfect # <<>>
       THEN Return(Fields(perfect[1], PyInt(0), PyInt(0), PyInt(0), <<>>, <<>>, <<>>), FALSE, {})
       ELSE IF ~indelMode
            THEN alignAnnotateEachSeqMMonly(querySeq, refSeqs, startPos, refPos,
                                            defaultCutoff(MMcutoff, querySeq), ord)
            ELSE alignAnnotateEachSeqMMindels(querySeq, refSeqs, startPos, refPos, ord, needleOK)

-----------------------------------------------------------------------------
(* main *)

phredOffset == 15

NoDict == [k \in {} |-> <<>>]

NumRows == Len(allQuerySeqs)

Workers == 1..args.numCore

(* Options -i and -m are mutually exclusive; -m defaults to None *)
Args ==
    {a \in [indel : BOOLEAN,
            MMcutoff : {None} \cup {PyInt(c) : c \in 0..MaxCutoff},
            numberedMode : BOOLEAN,
            startPos : {1},
            numCore : 1..MaxCores] : a.indel => a.MMcutoff = None}

Init ==
    /\ args \in Args
    /\ pc = "readRefs"
    /\ numRecords = 0
    /\ refSeqsDict = NoDict
    /\ refPosDict = NoDict
    /\ hashOrder = NoDict
    /\ allQuerySeqs = <<>>
    /\ nextTask = 1
    /\ running = [w \in Workers |-> 0]
    /\ results = <<>>
    /\ completed = <<>>
    /\ allAnnotations = <<>>
    /\ output = <<>>
    /\ exception = "none"

(* Mutant of positionLabels: the trailing label is not appended *)
positionLabels_noAppend(qual) == [i \in 1..Len(qual) |-> qual[i] - phredOffset]

(* lines 133-134: the labels of a numbered reference, from its quality scores *)
positionLabels(qual) == [i \in 1..Len(qual) |-> qual[i] - phredOffset] \o <<1>>

(* lines 130-138: one turn of the loop over the records of the reference file, *)
(* the record's ID being one of ids                                            *)
ReadRecordOf(ids) ==
    /\ pc = "readRefs"
    /\ numRecords < MaxRecords
    /\ \E id \in ids, raw \in RawSeqs :
         \E qual \in (IF args.numberedMode THEN PhredLists(Len(raw)) ELSE {<<>>}) :
            /\ numRecords' = numRecords + 1
            /\ refSeqsDict' = Put(refSeqsDict, id, upper(raw))
            /\ refPosDict' = Put(refPosDict, id,
                                 IF args.numberedMode THEN positionLabels(qual) ELSE <<>>)
    /\ UNCHANGED <<args, pc, hashOrder, allQuerySeqs, nextTask, running, results,
                   completed, allAnnotations, output, exception>>

ReadRecord == ReadRecordOf(RefIDs)

(* line 141: the reference file is exhausted and the query table is read *)
LoadSeqFile(n) ==
    /\ pc = "readRefs"
    /\ \E rows \in [1..n -> RawSeqs] :
          /\ allQuerySeqs' = rows
          /\ results' = [i \in 1..n |-> Pending]
    /\ pc' = "match"
    /\ UNCHANGED <<args, numRecords, refSeqsDict, refPosDict, hashOrder, nextTask, running,
                   completed, allAnnotations, output, exception>>

(* The dicts a call on querySeq iterates over *)
DictsIterated(querySeq) ==
    ({DOMAIN refSeqsDict}
       \cup (IF ~args.indel /\ \A k \in DOMAIN refSeqsDict : refSeqsDict[k] # querySeq
             THEN {SameLengthRefs(querySeq, refSeqsDict)} ELSE {})) \ {{}}

(* Iteration orders: the ones already met stay, each new dict gets some order *)
OrdersFor(need) ==
    LET new == need \ DOMAIN hashOrder
    IN {[s \in DOMAIN hashOrder \cup new |-> IF s \in DOMAIN hashOrder THEN hashOrder[s] ELSE g[s]] :
          g \in {h \in [new -> UNION {Perms(s) : s \in new}] : \A s \in new : h[s] \in Perms(s)}}

(* One call alignAnnotateEachSeq(seq.upper(), refSeqsDict, startPos, refPosDict, MMcutoff, indel) *)
Call(row, ord, needleOK) ==
    alignAnnotateEachSeq(upper(allQuerySeqs[row]), refSeqsDict, args.startPos, refPosDict,
                         args.MMcutoff, args.indel, ord, needleOK)

(* line 146: Series.apply calls the matcher on the rows in order, one per step; *)
(* an exception ends main                                                      *)
ApplyEachSeq ==
    /\ pc = "match"
    /\ args.numCore = 1
    /\ nextTask <= NumRows
    /\ \E needleOK \in BOOLEAN : \E ord \in OrdersFor(DictsIterated(upper(allQuerySeqs[nextTask]))) :
          LET r == Call(nextTask, ord, needleOK)
          IN /\ hashOrder' = ord
             /\ results' = [results EXCEPT ![nextTask] = r]
             /\ completed' = Append(completed, nextTask)
             /\ IF r.exc # "none"
                THEN pc' = "aborted" /\ exception' = r.exc /\ nextTask' = nextTask
                ELSE pc' = pc /\ exception' = exception /\ nextTask' = nextTask + 1
    /\ UNCHANGED <<args, numRecords, refSeqsDict, refPosDict, allQuerySeqs, running,
                   allAnnotations, output>>

(* line 149: joblib hands the rows to its workers in input order; the workers  *)
(* are interchangeable, the idle one with the smallest number takes the row    *)
Dispatch(w) ==
    /\ pc = "match"
    /\ args.numCore # 1
    /\ running[w] = 0
    /\ \A v \in 1..(w - 1) : running[v] # 0
    /\ nextTask <= NumRows
    /\ running' = [running EXCEPT ![w] = nextTask]
    /\ nextTask' = nextTask + 1
    /\ UNCHANGED <<args, pc, numRecords, refSeqsDict, refPosDict, hashOrder, allQuerySeqs,
                   results, completed, allAnnotations, output, exception>>

(* Mutant of slotOf: results are kept in the order the calls finish *)
slotOf_arrival(w) == Len(completed) + 1

(* line 149: the slot of the result list that a worker's return value goes to *)
slotOf(w) == running[w]

(* line 149: a worker finishes its call *)
Complete(w) ==
    /\ pc = "match"
    /\ running[w] # 0
    /\ \E needleOK \in BOOLEAN : \E ord \in OrdersFor(DictsIterated(upper(allQuerySeqs[running[w]]))) :
          /\ hashOrder' = ord
          /\ results' = [results EXCEPT ![slotOf(w)] = Call(running[w], ord, needleOK)]
    /\ completed' = Append(completed, running[w])
    /\ running' = [running EXCEPT ![w] = 0]
    /\ UNCHANGED <<args, pc, numRecords, refSeqsDict, refPosDict, allQuerySeqs, nextTask,
                   allAnnotations, output, exception>>

(* line 149: Parallel re-raises in main the exception of a failed call *)
RetrieveRaise ==
    /\ pc = "match"
    /\ args.numCore # 1
    /\ \E i \in 1..NumRows :
          /\ results[i].exc \notin {"none", "pending"}
          /\ exception' = results[i].exc
    /\ pc' = "aborted"
    /\ UNCHANGED <<args, numRecords, refSeqsDict, refPosDict, hashOrder, allQuerySeqs, nextTask,
                   running, results, completed, allAnnotations, output>>

(* lines 146, 150: every call has returned; the results, in input order, make  *)
(* the Series allAnnotations                                                   *)
collect(res) == [i \in 1..Len(res) |-> res[i].ret]

(* lines 154, 156: the count suffix (option -c, column 'count') *)
withCount(annotation, count, n) ==
    annotation \o Colon \o (IF count THEN IntStr(n) ELSE <<>>)

(* lines 146/150-162: the annotations are collected, suffixed, inserted as a   *)
(* column and written                                                          *)
WriteOutput ==
    /\ pc = "match"
    /\ \A i \in 1..NumRows : results[i].exc = "none"
    /\ allAnnotations' = collect(results)
    /\ \E count \in BOOLEAN : \E counts \in [1..NumRows -> CountVals] :
          output' = [i \in 1..NumRows |-> withCount(collect(results)[i], count, counts[i])]
    /\ pc' = "done"
    /\ UNCHANGED <<args, numRecords, refSeqsDict, refPosDict, hashOrder, allQuerySeqs, nextTask,
                   running, results, completed, exception>>

Next ==
    \/ ReadRecord
    \/ \E n \in 1..MaxQueries : LoadSeqFile(n)
    \/ ApplyEachSeq
    \/ \E w \in Workers : Dispatch(w)
    \/ \E w \in Workers : Complete(w)
    \/ RetrieveRaise
    \/ WriteOutput

Spec == Init /\ [][Next]_vars

(* A single call of the matcher: one row, one core *)
InitCall == Init /\ args.numCore = 1

NextCall ==
    \/ ReadRecord
    \/ LoadSeqFile(1)
    \/ ApplyEachSeq
    \/ WriteOutput

SpecCall == InitCall /\ [][NextCall]_vars

(* A single call of the matcher when a reference of the file is itself named *)
(* "NA", the label of an unresolved query                                    *)
SentinelIDs == {<<"x">>, NA}

NextSentinel ==
    \/ ReadRecordOf(SentinelIDs)
    \/ LoadSeqFile(1)
    \/ ApplyEachSeq
    \/ WriteOutput

SpecSentinel == InitCall /\ [][NextSentinel]_vars

-----------------------------------------------------------------------------
(* Properties *)

Query(i) == upper(allQuerySeqs[i])

Called(i) == i \in DOMAIN results /\ results[i].exc # "pending"

Returned(i) == i \in DOMAIN results /\ results[i].exc = "none"

Label(i) == results[i].fields.label

HasPerfect(i) == \E k \in DOMAIN refSeqsDict : refSeqsDict[k] = Query(i)

Candidates(i) == {k \in DOMAIN refSeqsDict : Len(refSeqsDict[k]) = Len(Query(i))}

Distance(i, k) == hamming(Query(i), refSeqsDict[k])

Unresolved(i) ==
    /\ Returned(i)
    /\ Label(i) = NA
    /\ results[i].ret = <<"N", "A", ":", "n", "a", "n", ":", "n", "a", "n", ":", "n", "a", "n", ":", ":", ":">>

(* C1: a query byte-identical to a reference is annotated with a reference whose *)
(* sequence equals the query, counts 0:0:0 and three empty lists, whatever the   *)
(* mode and the cutoff, and neither approximate matcher nor the aligner is       *)
(* called.                                                                       *)
C1_ExactMatch ==
    \A i \in DOMAIN results :
        (Called(i) /\ HasPerfect(i)) =>
            /\ Returned(i)
            /\ Label(i) \in DOMAIN refSeqsDict
            /\ refSeqsDict[Label(i)] = Query(i)
            /\ results[i].ret = Label(i) \o <<":", "0", ":", "0", ":", "0", ":", ":", ":">>
            /\ results[i].called = {}

(* An exact hit in indel mode, with a second, different reference in the set *)
C1_Witness ==
    \E i \in DOMAIN results :
        /\ Called(i) /\ HasPerfect(i)
        /\ args.indel
        /\ \E k \in DOMAIN refSeqsDict : refSeqsDict[k] # Query(i)

(* C2: in mismatch-only mode a resolved result names a reference of the query's *)
(* length whose Hamming distance to the query is the minimum over the           *)
(* references of that length; a reference of another length is never named.     *)
C2_SameLengthMinimum ==
    \A i \in DOMAIN results :
        (Returned(i) /\ ~args.indel /\ Label(i) # NA) =>
            /\ Label(i) \in Candidates(i)
            /\ \A k \in Candidates(i) : Distance(i, Label(i)) <= Distance(i, k)

(* A query at distance 2 from the reference of its length is given that        *)
(* reference although a shorter reference agrees with it on its only base      *)
C2_Witness ==
    \E i \in DOMAIN results :
        /\ Returned(i) /\ ~args.indel /\ Label(i) # NA
        /\ Distance(i, Label(i)) = 2
        /\ \E k \in DOMAIN refSeqsDict :
              Len(refSeqsDict[k]) < Len(Query(i)) /\ refSeqsDict[k][1] = Query(i)[1]

(* C3: in mismatch-only mode with an integer cutoff c (0 included), a query    *)
(* with no exact match whose minimum Hamming distance to the same-length       *)
(* references exceeds c is Unresolved.                                         *)
C3_CutoffRespected ==
    \A i \in DOMAIN results :
        (/\ Called(i) /\ ~args.indel /\ ~HasPerfect(i)
         /\ args.MMcutoff.type = "int"
         /\ \A k \in Candidates(i) : Distance(i, k) > args.MMcutoff.val) => Unresolved(i)

(* C4: in mismatch-only mode with no cutoff given, a query with no exact match *)
(* is Unresolved exactly when no reference has its length; otherwise the       *)
(* result names a reference.                                                   *)
C4_DefaultCutoff ==
    \A i \in DOMAIN results :
        (Called(i) /\ ~args.indel /\ args.MMcutoff = None /\ ~HasPerfect(i)) =>
            /\ Returned(i)
            /\ Unresolved(i) <=> Candidates(i) = {}
            /\ Candidates(i) # {} => Label(i) \in Candidates(i)

(* With no cutoff a query that differs from its reference at every position is *)
(* still resolved                                                              *)
C4_Witness ==
    \E i \in DOMAIN results :
        /\ Called(i) /\ ~args.indel /\ args.MMcutoff = None /\ ~HasPerfect(i)
        /\ Candidates(i) # {}
        /\ \A k \in Candidates(i) : Distance(i, k) = Len(Query(i))
        /\ Len(Query(i)) = 2
        /\ Label(i) \in Candidates(i)

GappedDistance(i, k) ==
    LET a == alignEmbossNeedle(Query(i), refSeqsDict[k]) IN hamming(a[1], a[2])

(* C5: in indel mode, when the aligner answers, every call returns a result:   *)
(* with a non-empty reference set it names a reference whose gapped distance   *)
(* is the minimum over all references, and with an empty set it still returns  *)
(* a result rather than failing.                                               *)
C5_IndelAlwaysResult ==
    \A i \in DOMAIN results :
        (Called(i) /\ args.indel /\ results[i].exc # "AlignerFailure") =>
            /\ Returned(i)
            /\ DOMAIN refSeqsDict # {} =>
                  /\ Label(i) \in DOMAIN refSeqsDict
                  /\ \A k \in DOMAIN refSeqsDict : GappedDistance(i, Label(i)) <= GappedDistance(i, k)


(* The candidates of the approximate matcher that ran on row i, and their distances *)
ApproxCandidates(i) == IF args.indel THEN DOMAIN refSeqsDict ELSE Candidates(i)

ApproxDistance(i, k) == IF args.indel THEN GappedDistance(i, k) ELSE Distance(i, k)

Nearest(i) ==
    {k \in ApproxCandidates(i) : \A j \in ApproxCandidates(i) : ApproxDistance(i, k) <= ApproxDistance(i, j)}

Tied(i) == Returned(i) /\ results[i].called # {} /\ Cardinality(Nearest(i)) >= 2

FirstInOrder(S, order) == order[Min({n \in 1..Len(order) : order[n] \in S})]

SameQuerySameAnswer ==
    \A i, j \in DOMAIN results :
        (Returned(i) /\ Returned(j) /\ Query(i) = Query(j)) => results[i] = results[j]

(* C6 as claimed: whenever two or more candidates of an approximate matcher    *)
(* share the minimum distance, the first of them in the candidate dict's       *)
(* iteration order is named and the tie warning is printed; the same query     *)
(* gets the same answer again.                                                 *)
C6_TieFirstAndWarned ==
    /\ \A i \in DOMAIN results :
          Tied(i) =>
             /\ Label(i) = FirstInOrder(Nearest(i), hashOrder[ApproxCandidates(i)])
             /\ results[i].warning
    /\ SameQuerySameAnswer

(* C6 as amended: the same, for the queries that are resolved (the minimum     *)
(* distance is within the cutoff in force).                                    *)
C6_TieFirstWhenResolved ==
    /\ \A i \in DOMAIN results :
          (Tied(i) /\ Label(i) # NA) =>
             /\ Label(i) = FirstInOrder(Nearest(i), hashOrder[ApproxCandidates(i)])
             /\ results[i].warning
    /\ SameQuerySameAnswer

(* The same query on two rows, tied between two references that differ from it *)
C6_Witness ==
    /\ NumRows >= 2
    /\ Query(1) = Query(2)
    /\ Tied(1) /\ Tied(2)
    /\ Label(1) # NA
    /\ results[1].warning
    /\ Label(1) = hashOrder[ApproxCandidates(1)][1]

(* The annotation the matcher gives row i *)
Expected(i) ==
    alignAnnotateEachSeq(Query(i), refSeqsDict, args.startPos, refPosDict, args.MMcutoff,
                         args.indel, hashOrder, TRUE).ret

(* C7: with two or more workers, whatever the order in which the calls finish, *)
(* the collected annotations are as many as the rows and the one at position i *)
(* is the annotation of row i; so is the written column, up to its suffix.     *)
C7_OrderPreserved ==
    (pc = "done" /\ args.numCore >= 2) =>
        /\ Len(allAnnotations) = NumRows
        /\ Len(output) = NumRows
        /\ \A i \in 1..NumRows :
              /\ allAnnotations[i] = Expected(i)
              /\ output[i] \in {Expected(i) \o Colon} \cup {Expected(i) \o Colon \o IntStr(n) : n \in CountVals}

(* Two rows with different annotations, the second finished first *)
C7_Witness ==
    /\ pc = "done"
    /\ args.numCore >= 2
    /\ NumRows >= 2
    /\ completed[1] = 2
    /\ allAnnotations[1] # allAnnotations[2]

(* C8: a call that fails (the aligner's error, min() of an empty list) does    *)
(* not end main: no exception reaches it and the batch is not aborted.         *)
C8_FailureIsolated ==
    \A i \in DOMAIN results :
        results[i].exc \in {"AlignerFailure", "ValueError"} => (pc # "aborted" /\ exception = "none")

(* C9: when two records of the reference file share an ID, no query is ever    *)
(* matched against the resulting reference set.                                *)
C9_DuplicateIDRejected ==
    numRecords > Cardinality(DOMAIN refSeqsDict) => \A i \in DOMAIN results : ~Called(i)

(* Parsing an annotation: split on ':' into seven fields, the counts read as   *)
(* numbers, the list fields split on ',' (an empty field is the empty list)    *)
RECURSIVE split(_, _)
split(s, sep) ==
    IF \A i \in 1..Len(s) : s[i] # sep THEN <<s>>
    ELSE LET i == CHOOSE j \in 1..Len(s) : s[j] = sep /\ \A k \in 1..(j-1) : s[k] # sep
         IN <<SubSeq(s, 1, i-1)>> \o split(SubSeq(s, i+1, Len(s)), sep)

DigitVal(c) ==
    CASE c = "0" -> 0 [] c = "1" -> 1 [] c = "2" -> 2 [] c = "3" -> 3 [] c = "4" -> 4
      [] c = "5" -> 5 [] c = "6" -> 6 [] c = "7" -> 7 [] c = "8" -> 8 [] c = "9" -> 9

RECURSIVE NatVal(_)
NatVal(s) == IF Len(s) = 1 THEN DigitVal(s[1]) ELSE 10 * NatVal(SubSeq(s, 1, Len(s) - 1)) + DigitVal(s[Len(s)])

parseCount(s) == IF s = <<"n", "a", "n">> THEN nan ELSE PyInt(NatVal(s))

parseList(s) == IF s = <<>> THEN <<>> ELSE split(s, ",")

parseAnnotation(s) ==
    LET f == split(s, ":")
    IN Fields(f[1], parseCount(f[2]), parseCount(f[3]), parseCount(f[4]),
              parseList(f[5]), parseList(f[6]), parseList(f[7]))

(* C10: every annotation the matcher returns splits into seven fields, and     *)
(* parsing it gives back the reference ID, the three counts and the three      *)
(* lists it was made from.                                                     *)
C10_RoundTrip ==
    \A i \in DOMAIN results :
        Returned(i) =>
            /\ Len(split(results[i].ret, ":")) = 7
            /\ parseAnnotation(results[i].ret) = results[i].fields


(* The outcome of row i is Unresolved: the matcher had nothing to compare and  *)
(* passed np.nan as the counts (lines 56, 60)                                  *)
UnresolvedOutcome(i) == Returned(i) /\ results[i].fields.numMM = nan

ResolvedOutcome(i) == Returned(i) /\ results[i].fields.numMM.type = "int"

NAString == <<"N", "A", ":", "n", "a", "n", ":", "n", "a", "n", ":", "n", "a", "n", ":", ":", ":">>

(* C11: every Unresolved outcome is written "NA:nan:nan:nan:::" (label NA, the *)
(* three counts the not-available marker, never 0, and three empty lists),     *)
(* and no resolved outcome, exact or approximate, is written as that string,   *)
(* even when it names a reference that is itself called NA.                    *)
C11_UnresolvedDistinct ==
    \A i \in DOMAIN results :
        /\ Returned(i) => (UnresolvedOutcome(i) \/ ResolvedOutcome(i))
        /\ UnresolvedOutcome(i) =>
              /\ results[i].ret = NAString
              /\ results[i].fields = Fields(NA, nan, nan, nan, <<>>, <<>>, <<>>)
        /\ ResolvedOutcome(i) =>
              /\ results[i].ret # NAString
              /\ results[i].fields.numIn.type = "int"
              /\ results[i].fields.numDel.type = "int"

(* An unresolved query while a reference named NA is in the set *)
C11_Witness ==
    \E i \in DOMAIN results :
        /\ UnresolvedOutcome(i)
        /\ NA \in DOMAIN refSeqsDict


(* C12 as claimed: once the index is built, the label list of every reference *)
(* is empty or exactly as long as the reference's sequence.                    *)
C12_LabelsMatchLength ==
    pc # "readRefs" =>
        \A id \in DOMAIN refPosDict :
            refPosDict[id] = <<>> \/ Len(refPosDict[id]) = Len(refSeqsDict[id])

(* C12 as amended: every reference has a label list; without numbering it is   *)
(* empty, and in numbered mode it is one entry longer than the reference's     *)
(* sequence, the entry after the last base being the label 1.                  *)
C12_LabelsOneLonger ==
    /\ DOMAIN refPosDict = DOMAIN refSeqsDict
    /\ \A id \in DOMAIN refPosDict :
          IF args.numberedMode
          THEN /\ Len(refPosDict[id]) = Len(refSeqsDict[id]) + 1
               /\ refPosDict[id][Len(refPosDict[id])] = 1
          ELSE refPosDict[id] = <<>>

(* The index is built in numbered mode from two records of different lengths *)
C12_Witness ==
    /\ pc # "readRefs"
    /\ args.numberedMode
    /\ \E a, b \in DOMAIN refSeqsDict : Len(refSeqsDict[a]) < Len(refSeqsDict[b])

====
